---- MODULE Spec2Model ----
(***************************************************************************)
(* Model of scripts/gh_issue_generator.py: parse_checklist, the issue      *)
(* content builder and the driver main.                                    *)
(*                                                                         *)
(* Text is a sequence of tokens (a token stands for the characters it      *)
(* shows); a line of the checklist is such a sequence without its newline. *)
(* A Python dict is a sequence of [key, val] records in insertion order.   *)
(***************************************************************************)
EXTENDS Naturals, Sequences, FiniteSets

VARIABLES
    lines,            \* parse_checklist: the lines of the file read so far
    phases,           \* parse_checklist / main: phase -> section -> tasks
    current_phase,    \* parse_checklist
    current_section,  \* parse_checklist
    pc,               \* position: "loop", "returned", "raised", "parsed", "listed",
                      \*           "built", "creating", "dry_run", "done"
    argv,             \* sys.argv
    issues_to_create, \* main: list of (title, body, phase)
    calls,            \* main: the arguments of each generate_issue_content call
    attempts          \* the runs of the tracker command, in order

vars == <<lines, phases, current_phase, current_section, pc, argv,
          issues_to_create, calls, attempts>>

\* ------------------------------------------------------------- bounds
MaxLines == 5

\* ------------------------------------------------------------- text
None == <<"<None>">>

WS == " "
EMOJI == "<emoji>"
Digits == {"0", "2", "3"}   \* the digits the files of the model use

Truthy(x) == x # None /\ x # <<>>

RECURSIVE LStrip(_)
LStrip(s) == IF s # <<>> /\ Head(s) = WS THEN LStrip(Tail(s)) ELSE s

RECURSIVE RStrip(_)
RStrip(s) ==
    IF s # <<>> /\ s[Len(s)] = WS THEN RStrip(SubSeq(s, 1, Len(s) - 1)) ELSE s

Strip(s) == RStrip(LStrip(s))

StartsWith(s, p) == Len(p) <= Len(s) /\ SubSeq(s, 1, Len(p)) = p

\* ------------------------------------------------------------- dict
Keys(d) == {d[i].key : i \in DOMAIN d}

DictGet(d, k) == d[CHOOSE i \in DOMAIN d : d[i].key = k].val

DictSet(d, k, v) ==
    IF k \in Keys(d)
    THEN [i \in DOMAIN d |-> IF d[i].key = k THEN [key |-> k, val |-> v] ELSE d[i]]
    ELSE Append(d, [key |-> k, val |-> v])

\* ------------------------------------------------------------- patterns
\* ^## (Phase \d+:.+?)(?:\s*[emoji])*\s*$  -> group(1), or None
PhaseMatch(s) ==
    IF Len(s) >= 5 /\ s[1] = "## " /\ s[2] = "Phase "
       /\ \E c \in 4..(Len(s) - 1) :
            /\ s[c] = ":"
            /\ \A q \in 3..(c - 1) : s[q] \in Digits
    THEN LET c == CHOOSE c \in 4..(Len(s) - 1) :
                     s[c] = ":" /\ \A q \in 3..(c - 1) : s[q] \in Digits
             ends == {m \in (c + 1)..Len(s) :
                         \A q \in (m + 1)..Len(s) : s[q] \in {WS, EMOJI}}
             n == CHOOSE m \in ends : \A m2 \in ends : m <= m2
         IN  SubSeq(s, 2, n)
    ELSE None

\* ^### (.+)$  -> group(1), or None
SectionMatch(s) ==
    IF Len(s) >= 2 /\ s[1] = "### " THEN Tail(s) ELSE None

\* variant: any checkbox marker counts as a task
TaskMatch_any_marker(s) ==
    IF Len(s) >= 2 /\ s[1] \in {"- [ ] ", "- [x] "} THEN Tail(s) ELSE None

\* ^- \[ \] (.+)$  -> group(1), or None
TaskMatch(s) ==
    IF Len(s) >= 2 /\ s[1] = "- [ ] " THEN Tail(s) ELSE None

\* ------------------------------------------------------------- parse_checklist
\* variant: a section header is taken without a current phase
SectionGuard_no_phase(section_match, cp) == section_match # None

\* if section_match and current_phase
SectionGuard(section_match, cp) == section_match # None /\ Truthy(cp)

\* if task_match and current_phase and current_section
TaskGuard(task_match, cp, cs) == task_match # None /\ Truthy(cp) /\ Truthy(cs)

\* variant: the task is put at the front of the list
AppendTask_prepend(tasks, task) == <<task>> \o tasks

\* phases[current_phase][current_section].append(task)
AppendTask(tasks, task) == Append(tasks, task)

Raise(st) == [st EXCEPT !.raised = TRUE]

\* One iteration of the loop over the lines; st.raised is set when the
\* iteration ends in a KeyError.
ParseStep(st, line) ==
    LET s == Strip(line)
        phase_match == PhaseMatch(s)
        section_match == SectionMatch(s)
        task_match == TaskMatch(s)
    IN  IF phase_match # None
        THEN LET cp == Strip(phase_match)
             IN  [st EXCEPT !.current_phase = cp,
                            !.phases = DictSet(st.phases, cp, <<>>)]
        ELSE IF SectionGuard(section_match, st.current_phase)
        THEN LET cs == Strip(section_match)
             IN  IF st.current_phase \notin Keys(st.phases)
                 THEN Raise(st)
                 ELSE [st EXCEPT
                         !.current_section = cs,
                         !.phases = DictSet(st.phases, st.current_phase,
                                        DictSet(DictGet(st.phases, st.current_phase),
                                                cs, <<>>))]
        ELSE IF TaskGuard(task_match, st.current_phase, st.current_section)
        THEN LET task == Strip(task_match)
             IN  IF \/ st.current_phase \notin Keys(st.phases)
                    \/ st.current_section
                         \notin Keys(DictGet(st.phases, st.current_phase))
                 THEN Raise(st)
                 ELSE LET sections == DictGet(st.phases, st.current_phase)
                          tasks == DictGet(sections, st.current_section)
                      IN  [st EXCEPT
                             !.phases = DictSet(st.phases, st.current_phase,
                                          DictSet(sections, st.current_section,
                                                  AppendTask(tasks, task)))]
        ELSE st

ParseInit ==
    [phases |-> <<>>, current_phase |-> None, current_section |-> None,
     raised |-> FALSE]

\* ------------------------------------------------------------- the file
PH2 == <<"## ", "Phase ", "2", ":", WS, "X">>
PH3 == <<"## ", "Phase ", "3", ":", WS, "Y">>
PH3e == <<"## ", "Phase ", "3", ":", WS, "Y", WS, EMOJI>>
PH30 == <<"## ", "Phase ", "3", "0", ":", WS, "Z">>
SA == <<"### ", "A">>
SB == <<"### ", "B", WS>>
T1 == <<"- [ ] ", "t">>
T2 == <<WS, "- [ ] ", "u">>
X1 == <<"- [x] ", "t">>
TITLE == <<"# ", "Checklist">>

Lines == {PH2, PH3, PH3e, SA, SB, T1, T2, X1, TITLE}

\* ------------------------------------------------------------- actions
Init ==
    /\ lines = <<>>
    /\ phases = <<>>
    /\ current_phase = None
    /\ current_section = None
    /\ pc = "loop"
    /\ argv = <<>>
    /\ issues_to_create = <<>>
    /\ calls = <<>>
    /\ attempts = <<>>

\* for line in lines: ... (the next line of the file)
ParseLine ==
    /\ pc = "loop"
    /\ Len(lines) < MaxLines
    /\ \E line \in Lines :
         LET st == ParseStep([phases |-> phases, current_phase |-> current_phase,
                              current_section |-> current_section,
                              raised |-> FALSE], line)
         IN  /\ lines' = Append(lines, line)
             /\ phases' = st.phases
             /\ current_phase' = st.current_phase
             /\ current_section' = st.current_section
             /\ pc' = IF st.raised THEN "raised" ELSE "loop"
    /\ UNCHANGED <<argv, issues_to_create, calls, attempts>>

\* return phases (the file has no further line)
Return ==
    /\ pc = "loop"
    /\ pc' = "returned"
    /\ UNCHANGED <<lines, phases, current_phase, current_section, argv,
                   issues_to_create, calls, attempts>>

\* ------------------------------------------------------------- generate_issue_content
NL == "\n"

\* phase.split(':')[0]
BeforeColon(s) ==
    IF \E i \in DOMAIN s : s[i] = ":"
    THEN SubSeq(s, 1, (CHOOSE i \in DOMAIN s :
                          s[i] = ":" /\ \A j \in 1..(i - 1) : s[j] # ":") - 1)
    ELSE s

\* variant: the task lines are written last task first
RECURSIVE TaskLines_reversed(_)
TaskLines_reversed(tasks) ==
    IF tasks = <<>> THEN <<>>
    ELSE TaskLines_reversed(Tail(tasks)) \o <<"- [ ] ">> \o Head(tasks) \o <<NL>>

\* for task in tasks: body += f"- [ ] {task}\n"
RECURSIVE TaskLines(_)
TaskLines(tasks) ==
    IF tasks = <<>> THEN <<>>
    ELSE <<"- [ ] ">> \o Head(tasks) \o <<NL>> \o TaskLines(Tail(tasks))

generate_issue_content(phase, section, tasks) ==
    [title |-> <<"[">> \o BeforeColon(phase) \o <<"] ">> \o section,
     body |-> <<"## Description", NL,
                "Implement the following tasks for **">> \o section
              \o <<"** in **">> \o phase \o <<"**.", NL,
                   NL,
                   "## Tasks", NL>>
              \o TaskLines(tasks)
              \o <<NL,
                   "## Context", NL,
                   "This issue is part of the implementation checklist for the Proxy Desktop Browser project.", NL,
                   NL,
                   "## Acceptance Criteria", NL,
                   "- ", "All tasks listed above are completed", NL,
                   "- ", "Code is tested and working", NL,
                   "- ", "Documentation is updated if needed", NL>>]

\* ------------------------------------------------------------- main: the arguments
MaxArgs == 3

Script == <<"gh_issue_generator.py">>
File == <<"IMPLEMENTATION_CHECKLIST.md">>
ArgCreate == <<"--create">>
ArgList == <<"--list">>
ArgPhase == <<"--phase">>

ArgTokens == {ArgCreate, ArgList, ArgPhase, <<"3">>}

\* the script, the file and up to MaxArgs further arguments, none given twice
Argvs ==
    {<<Script, File>> \o opts :
        opts \in {o \in UNION {[1..n -> ArgTokens] : n \in 0..MaxArgs} :
                    \A i, j \in DOMAIN o : o[i] = o[j] => i = j}}

Contains(seq, x) == \E i \in DOMAIN seq : seq[i] = x

\* variant: submission is the default
create_issues_always(av) == TRUE

\* create_issues = '--create' in sys.argv
create_issues(av) == Contains(av, ArgCreate)

\* list_only = '--list' in sys.argv
list_only(av) == Contains(av, ArgList)

\* phase_filter: the argument after the first '--phase', when there is one
phase_filter(av) ==
    IF Contains(av, ArgPhase)
    THEN LET idx == CHOOSE i \in DOMAIN av :
                        av[i] = ArgPhase /\ \A j \in 1..(i - 1) : av[j] # ArgPhase
         IN  IF idx + 1 <= Len(av) THEN av[idx + 1] ELSE None
    ELSE None

\* variant: the phase number must equal the filter
KeepPhase_exact(phase, filter) ==
    ~(Truthy(filter) /\ ~StartsWith(phase, <<"Phase ">> \o filter \o <<":">>))

\* not (phase_filter and not phase.startswith(f"Phase {phase_filter}"))
KeepPhase(phase, filter) ==
    ~(Truthy(filter) /\ ~StartsWith(phase, <<"Phase ">> \o filter))

\* variant: sections without tasks are kept
IncludeSection_always(tasks) == TRUE

\* if tasks:
IncludeSection(tasks) == tasks # <<>>

\* The (phase, section, tasks) triples main passes to generate_issue_content,
\* in the order of the two nested loops.
RECURSIVE SectionCalls(_, _)
SectionCalls(phase, sections) ==
    IF sections = <<>> THEN <<>>
    ELSE (IF IncludeSection(Head(sections).val)
          THEN <<[phase |-> phase, section |-> Head(sections).key,
                  tasks |-> Head(sections).val]>>
          ELSE <<>>)
         \o SectionCalls(phase, Tail(sections))

RECURSIVE PhaseCalls(_, _)
PhaseCalls(ps, filter) ==
    IF ps = <<>> THEN <<>>
    ELSE (IF KeepPhase(Head(ps).key, filter)
          THEN SectionCalls(Head(ps).key, Head(ps).val)
          ELSE <<>>)
         \o PhaseCalls(Tail(ps), filter)

\* issues_to_create.append((title, body, phase))
IssueOf(c) ==
    LET content == generate_issue_content(c.phase, c.section, c.tasks)
    IN  [title |-> content.title, body |-> content.body, phase |-> c.phase]

\* variant: the loop is left at the first failed submission
AfterCreate_abort(done, total, ok) ==
    IF ok /\ done < total THEN "creating" ELSE "done"

\* the position after create_github_issue returned ok for entry number done
AfterCreate(done, total, ok) == IF done < total THEN "creating" ELSE "done"

\* ------------------------------------------------------------- main: the file
MaxBlocks == 3

Blocks ==
    { <<PH2, SA, T1>>,
      <<PH3, SA, T1, T2, SB, X1>>,
      <<PH30, SB, T2>>,
      <<PH30>>,
      <<T1>> }

RECURSIVE Flatten(_)
Flatten(bs) == IF bs = <<>> THEN <<>> ELSE Head(bs) \o Flatten(Tail(bs))

MainDocs ==
    {Flatten(bs) : bs \in UNION {[1..n -> Blocks] : n \in 0..MaxBlocks}}

\* parse_checklist on a whole file: the loop, left at the first KeyError
RECURSIVE ParseFrom(_, _)
ParseFrom(st, ls) ==
    IF ls = <<>> \/ st.raised THEN st
    ELSE ParseFrom(ParseStep(st, Head(ls)), Tail(ls))

\* main after phases = parse_checklist(filepath)
InitMain ==
    /\ lines \in MainDocs
    /\ argv \in Argvs
    /\ LET st == ParseFrom(ParseInit, lines)
       IN  /\ phases = st.phases
           /\ current_phase = st.current_phase
           /\ current_section = st.current_section
           /\ pc = IF st.raised THEN "raised" ELSE "parsed"
    /\ issues_to_create = <<>>
    /\ calls = <<>>
    /\ attempts = <<>>

\* if list_only: ... return
ListOnly ==
    /\ pc = "parsed"
    /\ list_only(argv)
    /\ pc' = "listed"
    /\ UNCHANGED <<lines, phases, current_phase, current_section, argv,
                   issues_to_create, calls, attempts>>

\* the loops that fill issues_to_create
BuildIssues ==
    /\ pc = "parsed"
    /\ ~list_only(argv)
    /\ calls' = PhaseCalls(phases, phase_filter(argv))
    /\ issues_to_create' = [i \in DOMAIN calls' |-> IssueOf(calls'[i])]
    /\ pc' = "built"
    /\ UNCHANGED <<lines, phases, current_phase, current_section, argv, attempts>>

\* if create_issues: (enter the loop over issues_to_create)
StartCreate ==
    /\ pc = "built"
    /\ create_issues(argv)
    /\ pc' = AfterCreate(0, Len(issues_to_create), TRUE)
    /\ UNCHANGED <<lines, phases, current_phase, current_section, argv,
                   issues_to_create, calls, attempts>>

\* else: print the hint
DryRun ==
    /\ pc = "built"
    /\ ~create_issues(argv)
    /\ pc' = "dry_run"
    /\ UNCHANGED <<lines, phases, current_phase, current_section, argv,
                   issues_to_create, calls, attempts>>

\* create_github_issue(title, body): one run of the tracker command, whose
\* exit status is the tracker's to choose
CreateIssue ==
    /\ pc = "creating"
    /\ LET k == Len(attempts) + 1
       IN  \E returncode \in {0, 1} :
             /\ attempts' = Append(attempts,
                                [title |-> issues_to_create[k].title,
                                 body |-> issues_to_create[k].body,
                                 returncode |-> returncode])
             /\ pc' = AfterCreate(k, Len(issues_to_create), returncode = 0)
    /\ UNCHANGED <<lines, phases, current_phase, current_section, argv,
                   issues_to_create, calls>>

NextMain == ListOnly \/ BuildIssues \/ StartCreate \/ DryRun \/ CreateIssue

SpecMain == InitMain /\ [][NextMain]_vars

Next == ParseLine \/ Return

Spec == Init /\ [][Next]_vars

\* ------------------------------------------------------------- reading a file
\* What each line of Lines is, by the checklist format.
IsPhaseLine(l) == l \in {PH2, PH3, PH3e, PH30}
IsSectionLine(l) == l \in {SA, SB}
IsUncheckedLine(l) == l \in {T1, T2}
IsIgnoredLine(l) == l \in {X1, TITLE}

LabelOf(l) ==
    IF l = PH2 THEN <<"Phase ", "2", ":", WS, "X">>
    ELSE IF l \in {PH3, PH3e} THEN <<"Phase ", "3", ":", WS, "Y">>
    ELSE IF l = PH30 THEN <<"Phase ", "3", "0", ":", WS, "Z">>
    ELSE IF l = SA THEN <<"A">>
    ELSE IF l = SB THEN <<"B">>
    ELSE IF l = T1 THEN <<"t">>
    ELSE IF l = T2 THEN <<"u">>
    ELSE None

Max(S) == IF S = {} THEN 0 ELSE CHOOSE m \in S : \A n \in S : n <= m

\* the last phase (section) header before line i of d, 0 for none
LastPhase(d, i) == Max({k \in 1..(i - 1) : IsPhaseLine(d[k])})
LastSection(d, i) == Max({j \in 1..(i - 1) : IsSectionLine(d[j])})

\* line i is an unchecked task inside a section inside a phase
InSection(d, i) ==
    /\ IsUncheckedLine(d[i])
    /\ LastPhase(d, i) # 0
    /\ LastSection(d, i) > LastPhase(d, i)

PhaseAt(d, i) == LabelOf(d[LastPhase(d, i)])
SectionAt(d, i) == LabelOf(d[LastSection(d, i)])

\* no later header of d opens the entry of line i again
Live(d, i) ==
    /\ InSection(d, i)
    /\ ~\E k \in (i + 1)..Len(d) :
          IsPhaseLine(d[k]) /\ LabelOf(d[k]) = PhaseAt(d, i)
    /\ ~\E j \in (i + 1)..Len(d) :
          /\ IsSectionLine(d[j])
          /\ LabelOf(d[j]) = SectionAt(d, i)
          /\ LastPhase(d, j) # 0
          /\ LabelOf(d[LastPhase(d, j)]) = PhaseAt(d, i)

\* the texts of the lines of d numbered in S, in the order of the lines
RECURSIVE TextsUpTo(_, _, _)
TextsUpTo(d, S, n) ==
    IF n = 0 THEN <<>>
    ELSE IF n \in S THEN Append(TextsUpTo(d, S, n - 1), LabelOf(d[n]))
    ELSE TextsUpTo(d, S, n - 1)

Texts(d, S) == TextsUpTo(d, S, Len(d))

AllOf(d, p, s) ==
    {i \in DOMAIN d : InSection(d, i) /\ PhaseAt(d, i) = p /\ SectionAt(d, i) = s}

LiveOf(d, p, s) == {i \in AllOf(d, p, s) : Live(d, i)}

HasEntry(p, s) == p \in Keys(phases) /\ s \in Keys(DictGet(phases, p))
Entry(p, s) == DictGet(DictGet(phases, p), s)

IsSubseq(a, b) ==
    \E f \in [DOMAIN a -> DOMAIN b] :
        /\ \A i \in DOMAIN a : a[i] = b[f[i]]
        /\ \A i, j \in DOMAIN a : i < j => f[i] < f[j]

\* the lines whose iteration has ended without an error
Processed == IF pc = "raised" THEN SubSeq(lines, 1, Len(lines) - 1) ELSE lines

AllTasks ==
    UNION {{DictGet(DictGet(phases, p), s)[i] :
               i \in DOMAIN DictGet(DictGet(phases, p), s)} :
           <<p, s>> \in {<<p, s>> \in Keys(phases) \X {<<"A">>, <<"B">>} :
                            HasEntry(p, s)}}

\* ------------------------------------------------------------- parse_checklist: claims
\* C1: parse_checklist never raises, whatever the lines are.
C1_NeverRaises == pc # "raised"

\* C2: while no section header has been processed since the last phase
\* header, no current section is set, and a task line there raises no error.
C2_SectionCleared ==
    (\E k \in DOMAIN lines :
        /\ IsPhaseLine(lines[k])
        /\ \A j \in (k + 1)..Len(lines) : ~IsSectionLine(lines[j]))
    => (current_section = None /\ pc # "raised")

\* C3 as stated: in the structure returned, every unchecked task line inside
\* a section inside a phase is in the task list of that entry, and the list
\* is in the order of the lines.
C3_EveryTaskReturned ==
    pc = "returned" =>
        \A i \in DOMAIN lines :
            InSection(lines, i) =>
                LET p == PhaseAt(lines, i)
                    s == SectionAt(lines, i)
                IN  /\ HasEntry(p, s)
                    /\ \E n \in DOMAIN Entry(p, s) : Entry(p, s)[n] = LabelOf(lines[i])
                    /\ IsSubseq(Entry(p, s), Texts(lines, AllOf(lines, p, s)))

\* C3 amended: after every processed prefix, each entry of the structure
\* holds exactly the unchecked task lines of its section that no later header
\* with the same label has reset, in the order of the lines.
C3_LiveTasksInOrder ==
    /\ \A i \in DOMAIN Processed :
         Live(Processed, i) => HasEntry(PhaseAt(Processed, i), SectionAt(Processed, i))
    /\ \A p \in Keys(phases) : \A s \in Keys(DictGet(phases, p)) :
         Entry(p, s) = Texts(Processed, LiveOf(Processed, p, s))

C3_Witness ==
    /\ pc = "returned"
    /\ \E p \in Keys(phases) : \E s \in Keys(DictGet(phases, p)) :
         /\ Entry(p, s) = <<<<"t">>, <<"u">>>>
         /\ Cardinality(LiveOf(lines, p, s)) = 2

\* C4: every task in the structure is the text of an unchecked task line
\* read so far, and a checked task line or other non-matching line changes
\* neither the structure nor the current phase and section.
C4_OnlyUncheckedTasks ==
    /\ [](AllTasks \subseteq
            {LabelOf(Processed[i]) :
                i \in {i \in DOMAIN Processed : IsUncheckedLine(Processed[i])}})
    /\ [][(lines' # lines /\ IsIgnoredLine(lines'[Len(lines')]))
            => /\ phases' = phases
               /\ current_phase' = current_phase
               /\ current_section' = current_section
               /\ pc' = pc]_vars

C4_Witness ==
    /\ pc = "returned"
    /\ Len(lines) >= 4
    /\ lines[4] = X1
    /\ AllTasks = {<<"u">>}

\* C5: a section header or task line before any phase header, and a task
\* line before any section header, is dropped without error and leaves the
\* structure without it.
C5_DroppedBeforeHeaders ==
    /\ (\A k \in DOMAIN lines : ~IsPhaseLine(lines[k]))
         => (phases = <<>> /\ current_phase = None /\ pc # "raised")
    /\ (\A j \in DOMAIN lines : IsSectionLine(lines[j]) => LastPhase(lines, j) = 0)
         => /\ \A p \in Keys(phases) : DictGet(phases, p) = <<>>
            /\ current_section = None
            /\ pc # "raised"

C5_Witness ==
    /\ pc = "returned"
    /\ Len(lines) = 4
    /\ IsSectionLine(lines[1])
    /\ IsUncheckedLine(lines[2])
    /\ IsPhaseLine(lines[3])
    /\ IsUncheckedLine(lines[4])

\* ------------------------------------------------------------- main: claims
AfterBuild == pc \in {"built", "creating", "dry_run", "done"}

\* the sections of the structure, as (phase, section, tasks)
Entries ==
    UNION {{[phase |-> phases[i].key, section |-> phases[i].val[j].key,
             tasks |-> phases[i].val[j].val] : j \in DOMAIN phases[i].val} :
           i \in DOMAIN phases}

\* the label begins with "Phase N", N the value given to --phase
PassesFilter(label) ==
    phase_filter(argv) = None
    \/ StartsWith(label, <<"Phase ">> \o phase_filter(argv))

\* C6: the issue list has one entry for each section that has tasks and whose
\* phase passes the filter, and none for any other; no content is built from
\* an empty task list.
C6_OneIssuePerOpenSection ==
    AfterBuild =>
        LET wanted == {e \in Entries : e.tasks # <<>> /\ PassesFilter(e.phase)}
        IN  /\ Len(calls) = Cardinality(wanted)
            /\ \A e \in wanted : \E i \in DOMAIN calls : calls[i] = e
            /\ \A i \in DOMAIN calls : calls[i] \in wanted
            /\ Len(issues_to_create) = Len(calls)
            /\ \A i \in DOMAIN calls :
                 /\ issues_to_create[i].phase = calls[i].phase
                 /\ issues_to_create[i].title
                      = <<"[">> \o BeforeColon(calls[i].phase) \o <<"] ">>
                          \o calls[i].section

C6_Witness ==
    /\ pc = "built"
    /\ \E e \in Entries : e.tasks = <<>>
    /\ \E i \in DOMAIN phases : phases[i].val = <<>>
    /\ \E e \in Entries : e.tasks # <<>> /\ ~PassesFilter(e.phase)
    /\ Len(issues_to_create) >= 1

\* C7: with --create the entries of the issue list are attempted one at a
\* time in list order, each once, and the run ends only after the last
\* entry, whichever attempts failed.
C7_EveryIssueAttempted ==
    /\ Len(attempts) <= Len(issues_to_create)
    /\ \A i \in DOMAIN attempts :
         /\ attempts[i].title = issues_to_create[i].title
         /\ attempts[i].body = issues_to_create[i].body
    /\ pc = "creating" => Len(attempts) < Len(issues_to_create)
    /\ (Contains(argv, ArgCreate) /\ pc \in {"done", "dry_run"})
         => (pc = "done" /\ Len(attempts) = Len(issues_to_create))

C7_Witness ==
    /\ pc = "done"
    /\ Len(attempts) = 3
    /\ attempts[1].returncode # 0
    /\ attempts[2].returncode = 0
    /\ attempts[3].returncode # 0

\* C8: the tracker command is run only with --create and without --list; a
\* run with --list builds and submits nothing, a run without --create
\* submits nothing.
C8_SubmitOnlyOnCreate ==
    /\ (attempts # <<>> \/ pc = "creating")
         => (Contains(argv, ArgCreate) /\ ~Contains(argv, ArgList))
    /\ Contains(argv, ArgList)
         => /\ issues_to_create = <<>> /\ calls = <<>> /\ attempts = <<>>
            /\ pc \in {"parsed", "listed", "raised"}
    /\ ~Contains(argv, ArgCreate) => pc # "done"

C8_Witness ==
    /\ pc = "listed"
    /\ Contains(argv, ArgCreate)
    /\ \E e \in Entries : e.tasks # <<>>

RECURSIVE SplitLines(_)
SplitLines(text) ==
    IF text = <<>> THEN <<>>
    ELSE IF \E i \in DOMAIN text : text[i] = NL
    THEN LET n == CHOOSE i \in DOMAIN text :
                      text[i] = NL /\ \A j \in 1..(i - 1) : text[j] # NL
         IN  <<SubSeq(text, 1, n - 1)>> \o SplitLines(SubSeq(text, n + 1, Len(text)))
    ELSE <<text>>

IsCheckbox(line) == line # <<>> /\ line[1] = "- [ ] "

BodyListsTasks(body, tasks) ==
    LET ls == SplitLines(body)
        boxes == SelectSeq(ls, IsCheckbox)
        heads == {i \in DOMAIN ls : ls[i] = <<"## Tasks">>}
        ends == {i \in DOMAIN ls : ls[i] = <<"## Context">>}
    IN  /\ Len(boxes) = Len(tasks)
        /\ \A i \in DOMAIN tasks : boxes[i] = <<"- [ ] ">> \o tasks[i]
        /\ Cardinality(heads) = 1 /\ Cardinality(ends) = 1
        /\ \A i \in DOMAIN ls :
             IsCheckbox(ls[i]) => \A h \in heads : \A c \in ends : h < i /\ i < c

\* C10: the body of an issue has one "- [ ] <task>" line for each task, in
\* the order of the tasks, between the Tasks and the Context headings.
C10_BodyListsTasks ==
    /\ \A e \in Entries :
         BodyListsTasks(generate_issue_content(e.phase, e.section, e.tasks).body,
                        e.tasks)
    /\ \A i \in DOMAIN issues_to_create :
         BodyListsTasks(issues_to_create[i].body, calls[i].tasks)

C10_Witness ==
    /\ pc = "built"
    /\ \E i \in DOMAIN calls :
         /\ calls[i].tasks = <<<<"t">>, <<"u">>>>
         /\ SelectSeq(SplitLines(issues_to_create[i].body), IsCheckbox)
              = <<<<"- [ ] ", "t">>, <<"- [ ] ", "u">>>>

====
